---------------------------- MODULE Spec2Model ----------------------------
(***************************************************************************)
(* Model of volume-logitech-hidraw.c: the HID-triggered volume daemon.     *)
(*                                                                         *)
(* Two threads of control are modelled: the thread of main()/start_daemon  *)
(* (variable pc is its position) and the pa_threaded_mainloop thread,      *)
(* which dispatches the PulseAudio callbacks (connected_cb, sink_list_cb,  *)
(* set_volume_cb).  The threaded mainloop holds its own lock while it      *)
(* dispatches, and start_daemon takes that lock around its library calls,  *)
(* so one dispatch and one locked section of start_daemon are each one     *)
(* atomic action here.                                                     *)
(*                                                                         *)
(* volume_set_mutex is a default (normal) pthread mutex used as a binary   *)
(* semaphore: start_daemon locks it twice in a row and set_volume_cb, on   *)
(* the other thread, unlocks it.  With glibc a normal mutex keeps no owner *)
(* check: the second lock waits until any thread unlocks, and unlocking a  *)
(* free mutex leaves it free.  That is the behaviour modelled.             *)
(***************************************************************************)
EXTENDS Integers, Sequences, FiniteSets, TLC

(***************************************************************************)
(* Bounds of the model.                                                    *)
(***************************************************************************)
\* pa_volume_t is uint32_t; TLC's integers are 32-bit signed, so the word is
\* scaled to VolBits bits: all sums are taken modulo 2^VolBits and
\* PA_VOLUME_MAX keeps its place at half the word (UINT32_MAX / 2).
VolBits == 12
\* Directional reports (packet[1] not 0) the device delivers in one run of
\* the process.
MaxReports == 2
\* Largest direction byte (packet[1]) the device sends.
MaxByte == 3
\* Outputs (sinks) the audio server holds.
MaxSinks == 2
\* Entries of /sys/class/hidraw when find_hidraw_device is taken alone.
MaxEntries == 3
\* Quorum notifications the cluster sends in one run of the notifier, and
\* the nodes of a view list drawn freely.
MaxNotifications == 2
MaxView == 2
\* Passes of the throttler's loop in one run.
MaxCycles == 3

(***************************************************************************)
(* Program constants.                                                      *)
(***************************************************************************)
VOLUME_INCREMENT == 200
VOLUME_UP == 1
VOLUME_DOWN == 2
\* <stdlib.h>
EXIT_FAILURE == 1

\* "Logitech_G933"
SINK_NAME_HEADSET ==
    <<"L", "o", "g", "i", "t", "e", "c", "h", "_", "G", "9", "3", "3">>
\* "046D:0A5B"
DEVICE_USB_ID == <<"0", "4", "6", "D", ":", "0", "A", "5", "B">>

\* libpulse <pulse/volume.h>: PA_VOLUME_MUTED is 0, PA_VOLUME_MAX is
\* UINT32_MAX/2, the largest volume the service accepts.
Word == 2 ^ VolBits
PA_VOLUME_MUTED == 0
PA_VOLUME_MAX == (Word - 1) \div 2

(***************************************************************************)
(* Strings are tuples of characters; strstr is substring search.           *)
(***************************************************************************)
strstr(haystack, needle) ==
    \E i \in 1..(Len(haystack) - Len(needle) + 1) :
        SubSeq(haystack, i, i + Len(needle) - 1) = needle


Max(S) == CHOOSE x \in S : \A y \in S : y <= x

(***************************************************************************)
(* The audio server's data.                                                *)
(***************************************************************************)
\* A name that contains SINK_NAME_HEADSET, and one that does not: the target
\* with its last character changed.
NameHeadset == <<"u", "s", "b", "-">> \o SINK_NAME_HEADSET \o <<".", "0">>
NameNear ==
    <<"L", "o", "g", "i", "t", "e", "c", "h", "_", "G", "9", "3", "5">>
SinkNames == {NameHeadset, NameNear}

\* Per-channel volume vectors (pa_cvolume) the server may report at first:
\* one with its maximum below the increment, one with its maximum within
\* the increment of the ceiling.  Set-volume requests the server carries
\* out bring in the others.
CVolumes == << <<100, 50>>, <<PA_VOLUME_MAX - 300, PA_VOLUME_MAX - 100>> >>

\* The sink tables the server may hold: pa_sink_info entries in the server's
\* enumeration order, each with its index, its name and its volume.  Every
\* choice of names is drawn; the volumes alternate between the two vectors
\* of CVolumes, starting with either.
SinkTables ==
    UNION { { [k \in 1..n |->
                 [index |-> k - 1, name |-> nm[k],
                  volume |-> CVolumes[((first + k) % Len(CVolumes)) + 1]]] :
                nm \in [1..n -> SinkNames], first \in 1..Len(CVolumes) } :
            n \in 0..MaxSinks }

(***************************************************************************)
(* libpulse volume helpers, as the library computes them.                  *)
(***************************************************************************)
\* pa_cvolume_max: the largest channel value.
pa_cvolume_max(volume) == Max({ volume[ch] : ch \in 1..Len(volume) })

\* PA_CLAMP_VOLUME(v): v clamped to [PA_VOLUME_MUTED, PA_VOLUME_MAX].
PA_CLAMP_VOLUME(v) ==
    IF v < PA_VOLUME_MUTED THEN PA_VOLUME_MUTED
    ELSE IF v > PA_VOLUME_MAX THEN PA_VOLUME_MAX ELSE v

\* A mutant of pa_cvolume_set: the value is stored as it is given.
pa_cvolume_set_unclamped(channels, v) == [ch \in 1..channels |-> v]

\* pa_cvolume_set: every channel is set to PA_CLAMP_VOLUME(v).
pa_cvolume_set(channels, v) == [ch \in 1..channels |-> PA_CLAMP_VOLUME(v)]

(***************************************************************************)
(* set_volume (lines 59-84).                                               *)
(***************************************************************************)
\* The switch on direction: 1 for VOLUME_UP, -1 for VOLUME_DOWN, and 0 here
\* stands for the default branch, which calls abort().
multiplicator(direction) ==
    IF direction = VOLUME_UP THEN 1
    ELSE IF direction = VOLUME_DOWN THEN -1 ELSE 0

\* increment * multiplicator in uint32_t: the int8_t -1 converts to the
\* all-ones word.
UnsignedProduct(increment, mult) ==
    IF mult < 0 THEN (increment * (Word - 1)) % Word ELSE (increment * mult) % Word


\* current_volume = current_volume + (increment * multiplicator), uint32_t.
NewVolume(current, increment, direction) ==
    (current + UnsignedProduct(increment, multiplicator(direction))) % Word

\* One call of set_volume from sink_list_cb for sink i of operation rep.
\* acc carries what the calls of one enumeration have done so far: whether
\* abort() was called, the static current_volume, and the set-volume
\* requests handed to pa_context_set_sink_volume_by_index.
set_volume(acc, rep, i, increment, direction) ==
    IF multiplicator(direction) = 0
    THEN [acc EXCEPT !.aborted = TRUE]
    ELSE LET cur == NewVolume(pa_cvolume_max(i.volume), increment, direction)
             vol == pa_cvolume_set(Len(i.volume), cur)
         IN [acc EXCEPT
               !.current_volume = cur,
               !.requests = Append(@, [kind |-> "set", rep |-> rep,
                                       direction |-> direction,
                                       index |-> i.index, seen |-> i.volume,
                                       volume |-> vol])]

(***************************************************************************)
(* sink_list_cb (lines 86-102), called once per sink and once with eol.    *)
(***************************************************************************)
\* A mutant of sink_list_cb: the name is not looked at.
sink_list_cb_any_name(acc, rep, i, eol, userdata) ==
    IF eol \/ acc.aborted THEN acc
    ELSE set_volume(acc, rep, i, VOLUME_INCREMENT, userdata)

sink_list_cb(acc, rep, i, eol, userdata) ==
    IF eol \/ acc.aborted THEN acc
    ELSE IF strstr(i.name, SINK_NAME_HEADSET)
         THEN set_volume(acc, rep, i, VOLUME_INCREMENT, userdata)
         ELSE acc

\* The reply to pa_context_get_sink_info_list: libpulse calls the callback
\* for every sink of the table in the server's order, then once with eol.
\* A sink is a dummy in the eol call, where the callback does not read it.
RECURSIVE ListSinks(_, _, _, _, _)
ListSinks(acc, rep, table, k, userdata) ==
    IF k > Len(table)
    THEN sink_list_cb(acc, rep, [index |-> 0, name |-> <<>>, volume |-> <<0>>],
                      TRUE, userdata)
    ELSE ListSinks(sink_list_cb(acc, rep, table[k], FALSE, userdata),
                   rep, table, k + 1, userdata)

(***************************************************************************)
(* The device registry and find_hidraw_device (lines 198-249).             *)
(***************************************************************************)
NULL == <<>>

\* Link targets of /sys/class/hidraw/<entry>/device: one that names the
\* headset's vendor:product, one of another device of the same vendor.
LinkG933 == <<"0", "0", "0", "3", ":">> \o DEVICE_USB_ID \o <<".", "7">>
LinkMouse ==
    <<"0", "0", "0", "3", ":", "0", "4", "6", "D", ":", "C", "0", "7", "7">>

\* A directory entry: its d_name, and the link at <entry>/device, if the
\* entry has one ("." and ".." have none, and readlink fails on them).
Dot == [d_name |-> ".", islink |-> FALSE, link |-> <<>>]
DotDot == [d_name |-> "..", islink |-> FALSE, link |-> <<>>]
Hidraw(n, target) == [d_name |-> n, islink |-> TRUE, link |-> target]

\* The states of /sys/class/hidraw the model draws from, by name; openable
\* is whether opendir succeeds.
Registry(r) ==
    IF r = "unopenable" THEN [openable |-> FALSE, entries |-> <<>>]
    ELSE IF r = "other_device"
    THEN [openable |-> TRUE,
          entries |-> <<Dot, DotDot, Hidraw("hidraw0", LinkMouse)>>]
    ELSE [openable |-> TRUE,
          entries |-> <<Dot, DotDot, Hidraw("hidraw0", LinkMouse),
                        Hidraw("hidraw1", LinkG933), Hidraw("hidraw2", LinkG933)>>]
Registries == {"unopenable", "other_device", "headset"}

\* A mutant of readlink: 0 instead of -1 when the entry is no link.
readlink_zero_on_failure(entry) == IF entry.islink THEN Len(entry.link) ELSE 0

\* readlink: the length of the target, or -1 when the entry is no link.
readlink(entry) == IF entry.islink THEN Len(entry.link) ELSE -1

\* hidraw_device after bzero and readlink: the target, or the empty string.
LinkBuffer(entry) == IF entry.islink THEN entry.link ELSE <<>>

\* The while loop over readdir (lines 210-229) from entry k on, and the
\* result built after it (lines 231-237).
RECURSIVE ScanRegistry(_, _)
ScanRegistry(entries, k) ==
    IF k > Len(entries) THEN NULL
    ELSE IF readlink(entries[k]) = 0 THEN NULL
    ELSE IF strstr(LinkBuffer(entries[k]), DEVICE_USB_ID)
         THEN <<"/dev/", entries[k].d_name>>
         ELSE ScanRegistry(entries, k + 1)

\* A mutant of find_hidraw_device: a directory that cannot be opened is
\* taken as one without the device.
find_hidraw_device_never_exits(sysfs) ==
    [exits |-> FALSE,
     ret |-> IF sysfs.openable THEN ScanRegistry(sysfs.entries, 1) ELSE NULL]

\* find_hidraw_device: exits when opendir fails, else the path or NULL.
find_hidraw_device(sysfs) ==
    IF sysfs.openable
    THEN [exits |-> FALSE, ret |-> ScanRegistry(sysfs.entries, 1)]
    ELSE [exits |-> TRUE, ret |-> NULL]

(***************************************************************************)
(* State.                                                                  *)
(***************************************************************************)
VARIABLES
    pc,             \* where the thread of main()/start_daemon is
    proc,           \* "running", or how the process ended
    registry,       \* which of Registries /sys/class/hidraw is now
    hidraw_device,  \* main's hidraw_device: a path or NULL
    ctx,            \* state of the pa_context c; "none" outside a session
    mutex,          \* volume_set_mutex is locked
    packet1,        \* packet[1] of the last report read
    direction,      \* start_daemon's direction
    rep,            \* the number of the directional report being handled
    op,             \* start_daemon's op: 0 for NULL, else the request's rep
    inflight,       \* requests sent to the server, not yet answered, in order
    sinks,          \* the server's sink table
    current_volume, \* set_volume's static current_volume
    status,         \* the last STATUS= text given to sd_notify
    lastEnum,       \* the last call of pa_context_get_sink_info_list
    lastList,       \* the last sink list dispatched and what it requested
    lastCb          \* the last call of set_volume_cb

\* find_hidraw_device taken alone, on a directory of its own.
VARIABLES
    sysfs,          \* /sys/class/hidraw as the call finds it
    located         \* what the call did, NotCalled before it

\* volume-logitech.c, the one-shot tool run from a keyboard shortcut.
VARIABLES
    argv,                 \* the arguments after argv[0]
    vl_pc,                \* "main", "run" (in pa_mainloop_run), "returned"
    volume_direction,     \* static int8_t volume_direction
    vl_ctx,               \* state of the tool's pa_context
    vl_sinks,             \* the server's sink table
    vl_inflight,          \* requests sent to the server, not yet answered
    sink_default,         \* sink_list_cb's statics
    sink_headset,
    sink_default_volume,
    sink_headset_volume,
    done,
    vl_issued,            \* the set-volume requests issued, in order
    retval                \* what main returns, NoRetval while it runs

\* corosync-quorum-notify.c.
VARIABLES
    qn_argv,          \* the arguments after argv[0]
    qn_pc,            \* where main is
    ext_program,      \* static char *ext_program
    node_id,          \* static uint32_t node_id
    local_nodeid,     \* this node's id in the cluster
    qn_pending,       \* notifications waiting at the quorum fd, in order
    qn_sent,          \* notifications the cluster has sent
    dispatched,       \* calls of quorum_notification
    notification,     \* the arguments of the last call of it
    command,          \* the last command given to system()
    systemCalls,      \* calls of system()
    qn_retval         \* what main returned, NoRetval while it runs

\* throttle.c.
VARIABLES
    th_argv,          \* the arguments after the options
    th_pc,            \* where main is
    pid,              \* pid_t pid, the target
    cycles,           \* passes of the loop begun
    handling,         \* the calls of end() in progress, innermost last
    th_sent,          \* the signals sent to the target, in order
    th_status         \* the exit status, NoRetval while the process runs

daemonVars ==
    << pc, proc, registry, hidraw_device, ctx, mutex, packet1, direction, rep,
       op, inflight, sinks, current_volume, status, lastEnum, lastList,
       lastCb >>
locatorVars == << sysfs, located >>
vl_statics ==
    << sink_default, sink_headset, sink_default_volume, sink_headset_volume,
       done >>
volumeToolVars ==
    << argv, vl_pc, volume_direction, vl_ctx, vl_sinks, vl_inflight,
       vl_statics, vl_issued, retval >>

notifierVars ==
    << qn_argv, qn_pc, ext_program, node_id, local_nodeid, qn_pending, qn_sent,
       dispatched, notification, command, systemCalls, qn_retval >>

throttleVars == << th_argv, th_pc, pid, cycles, handling, th_sent, th_status >>

\* The variables of the programs other than the daemon, and likewise for
\* each of the others.
otherPrograms == << locatorVars, volumeToolVars, notifierVars, throttleVars >>
exceptLocator == << daemonVars, volumeToolVars, notifierVars, throttleVars >>
exceptVolumeTool == << daemonVars, locatorVars, notifierVars, throttleVars >>
exceptNotifier == << daemonVars, locatorVars, volumeToolVars, throttleVars >>
exceptThrottle == << daemonVars, locatorVars, volumeToolVars, notifierVars >>

vars == << daemonVars, otherPrograms >>

\* The variables of the thread of main(), of the server side, and of the
\* records kept for the properties.
readerVars == << pc, hidraw_device, packet1, direction, rep, op >>
serverVars == << inflight, sinks, current_volume >>
logVars == << status, lastEnum, lastList, lastCb >>

Bytes == 0..MaxByte

\* pa_context_state_t values before PA_CONTEXT_READY, in order.
Connecting == <<"CONNECTING", "AUTHORIZING", "SETTING_NAME">>
ConnectingStates == { Connecting[k] : k \in 1..Len(Connecting) }

\* The states of the other programs while the daemon is the one modelled.
NotCalled == [exits |-> FALSE, ret |-> <<"not called">>]
LocatorIdle == sysfs = [openable |-> FALSE, entries |-> <<>>] /\ located = NotCalled
NoRetval == -1
NoNotification == [quorate |-> 0, view_list |-> <<>>]
NotifierIdle ==
    /\ qn_argv = <<>> /\ qn_pc = "off" /\ ext_program = NULL /\ node_id = 0
    /\ local_nodeid = 0 /\ qn_pending = <<>> /\ qn_sent = 0
    /\ dispatched = 0 /\ notification = NoNotification /\ command = <<>>
    /\ systemCalls = 0 /\ qn_retval = NoRetval
ThrottleIdle ==
    /\ th_argv = <<>> /\ th_pc = "off" /\ pid = 0 /\ cycles = 0
    /\ handling = <<>> /\ th_sent = <<>> /\ th_status = NoRetval
VolumeToolIdle ==
    /\ argv = <<>> /\ vl_pc = "off" /\ volume_direction = 0
    /\ vl_ctx = "none" /\ vl_sinks = <<>> /\ vl_inflight = <<>>
    /\ sink_default = 0 /\ sink_headset = 0
    /\ sink_default_volume = <<>> /\ sink_headset_volume = <<>>
    /\ done = FALSE /\ vl_issued = <<>> /\ retval = NoRetval

\* The records before the first call.
NoEnum == [rep |-> 0, direction |-> 0, ctx |-> "none"]
NoList == [rep |-> 0, direction |-> 0, table |-> <<>>, requests |-> <<>>]
NoCb == [rep |-> 0, success |-> FALSE, volume |-> 0]

Init ==
    /\ pc = "find"
    /\ proc = "running"
    /\ registry \in Registries
    /\ hidraw_device = NULL
    /\ ctx = "none"
    /\ mutex = FALSE
    /\ packet1 = 0
    /\ direction = 0
    /\ rep = 0
    /\ op = 0
    /\ inflight = <<>>
    /\ sinks \in SinkTables
    /\ current_volume = 0
    /\ status = "none"
    /\ lastEnum = NoEnum
    /\ lastList = NoList
    /\ lastCb = NoCb
    /\ LocatorIdle
    /\ VolumeToolIdle
    /\ NotifierIdle
    /\ ThrottleIdle

(***************************************************************************)
(* main (lines 251-277).                                                   *)
(***************************************************************************)
\* Lines 259-266: find the device; with one, go on to start_daemon.
FindDevice ==
    /\ proc = "running" /\ pc = "find"
    /\ LET found == find_hidraw_device(Registry(registry))
       IN IF found.exits
          THEN /\ proc' = "exit_registry"
               /\ UNCHANGED << pc, hidraw_device, status >>
          ELSE /\ hidraw_device' = found.ret
               /\ proc' = proc
               /\ IF found.ret # NULL
                  THEN /\ status' = "Connected"
                       /\ pc' = "fopen"
                  ELSE /\ status' = status
                       /\ pc' = "notfound"
    /\ UNCHANGED << registry, ctx, mutex, packet1, direction, rep, op,
                    lastEnum, lastList, lastCb >>
    /\ UNCHANGED serverVars
    /\ UNCHANGED otherPrograms

\* Lines 267-268: reached when no device was found and when start_daemon
\* has returned.
CouldntFind ==
    /\ proc = "running" /\ pc = "notfound"
    /\ status' = "Couldn't find device."
    /\ pc' = "sleep"
    /\ UNCHANGED << proc, registry, hidraw_device, ctx, mutex, packet1, direction,
                    rep, op, lastEnum, lastList, lastCb >>
    /\ UNCHANGED serverVars
    /\ UNCHANGED otherPrograms

\* Line 269: sleep(1), then the next pass.
Sleep ==
    /\ proc = "running" /\ pc = "sleep"
    /\ pc' = "find"
    /\ UNCHANGED << proc, registry, hidraw_device, ctx, mutex, packet1, direction,
                    rep, op >>
    /\ UNCHANGED serverVars
    /\ UNCHANGED logVars
    /\ UNCHANGED otherPrograms

\* The registry changes (a device is plugged or unplugged).  It is read
\* only by find_hidraw_device, so the change is taken while main sleeps.
Replug ==
    /\ proc = "running" /\ pc = "sleep"
    /\ \E r \in Registries : r # registry /\ registry' = r
    /\ UNCHANGED << proc, ctx, mutex >>
    /\ UNCHANGED readerVars
    /\ UNCHANGED serverVars
    /\ UNCHANGED logVars
    /\ UNCHANGED otherPrograms

(***************************************************************************)
(* start_daemon (lines 123-196), the thread of main().                     *)
(***************************************************************************)
\* Lines 134-138: fopen of the device; on failure start_daemon returns
\* EXIT_FAILURE and main goes on at line 267.
OpenDevice ==
    /\ proc = "running" /\ pc = "fopen"
    /\ \E opened \in BOOLEAN : pc' = IF opened THEN "connect" ELSE "notfound"
    /\ UNCHANGED << proc, registry, hidraw_device, ctx, mutex, packet1, direction,
                    rep, op >>
    /\ UNCHANGED serverVars
    /\ UNCHANGED logVars
    /\ UNCHANGED otherPrograms

\* Lines 140-145: the mutex is initialised, the context is created and
\* pa_context_connect starts the handshake; the mainloop thread is started.
\* start_daemon goes straight on to its loop.
Connect ==
    /\ proc = "running" /\ pc = "connect"
    /\ mutex' = FALSE
    /\ ctx' = Connecting[1]
    /\ pc' = "read"
    /\ UNCHANGED << proc, registry, hidraw_device, packet1, direction, rep, op >>
    /\ UNCHANGED serverVars
    /\ UNCHANGED logVars
    /\ UNCHANGED otherPrograms

\* A mutant of SkipReport: no report is skipped.
SkipReportNever(byte) == FALSE

\* The condition of the do-while of lines 151-152 for a report that was
\* read (packet_size != 0): read again while packet[1] is 0.
SkipReport(byte) == byte = 0

\* Lines 151-159, a report arrives: fread returns 1.  A skipped report
\* leaves the thread in the do-while; another sets direction.
ReadReport ==
    /\ proc = "running" /\ pc = "read"
    /\ rep < MaxReports
    /\ \E byte \in Bytes :
        /\ packet1' = byte
        /\ IF SkipReport(byte)
           THEN UNCHANGED << pc, direction, rep >>
           ELSE /\ direction' = byte
                /\ rep' = rep + 1
                /\ pc' = "lock1"
    /\ UNCHANGED << proc, registry, hidraw_device, ctx, mutex, op >>
    /\ UNCHANGED serverVars
    /\ UNCHANGED logVars
    /\ UNCHANGED otherPrograms

\* Lines 151-156, the stream ends: fread returns 0 and the loop is left.
StreamEnd ==
    /\ proc = "running" /\ pc = "read"
    /\ pc' = "cleanup"
    /\ UNCHANGED << proc, registry, hidraw_device, ctx, mutex, packet1, direction,
                    rep, op >>
    /\ UNCHANGED serverVars
    /\ UNCHANGED logVars
    /\ UNCHANGED otherPrograms

\* Line 162: pthread_mutex_lock(&volume_set_mutex), taken when it is free.
LockForRequest ==
    /\ proc = "running" /\ pc = "lock1"
    /\ ~mutex
    /\ mutex' = TRUE
    /\ pc' = "enum"
    /\ UNCHANGED << proc, registry, hidraw_device, ctx, packet1, direction, rep,
                    op >>
    /\ UNCHANGED serverVars
    /\ UNCHANGED logVars
    /\ UNCHANGED otherPrograms

\* Lines 163-165: pa_context_get_sink_info_list under the mainloop lock.
\* libpulse sends the request when the context is PA_CONTEXT_READY and
\* returns NULL (PA_ERR_BADSTATE) otherwise.
RequestSinkList ==
    /\ proc = "running" /\ pc = "enum"
    /\ lastEnum' = [rep |-> rep, direction |-> direction, ctx |-> ctx]
    /\ IF ctx = "READY"
       THEN /\ inflight' = Append(inflight, [kind |-> "list", rep |-> rep,
                                             direction |-> direction, index |-> 0,
                                             seen |-> <<>>, volume |-> <<>>])
            /\ op' = rep
       ELSE /\ inflight' = inflight
            /\ op' = 0
    /\ pc' = "lock2"
    /\ UNCHANGED << proc, registry, hidraw_device, ctx, mutex, packet1, direction,
                    rep, sinks, current_volume, status, lastList, lastCb >>
    /\ UNCHANGED otherPrograms

\* Line 168: the second pthread_mutex_lock of the same mutex by the same
\* thread; it returns once a set_volume_cb has unlocked the mutex.
LockForResult ==
    /\ proc = "running" /\ pc = "lock2"
    /\ ~mutex
    /\ mutex' = TRUE
    /\ pc' = "see"
    /\ UNCHANGED << proc, registry, hidraw_device, ctx, packet1, direction, rep,
                    op >>
    /\ UNCHANGED serverVars
    /\ UNCHANGED logVars
    /\ UNCHANGED otherPrograms

\* Lines 169-180 under the mainloop lock: the mutex is unlocked and the
\* state of op is read, to be logged only.  pa_operation_get_state asserts
\* that op is not NULL.
SeeHowItWent ==
    /\ proc = "running" /\ pc = "see"
    /\ mutex' = FALSE
    /\ IF op = 0
       THEN proc' = "abort_assert" /\ pc' = pc
       ELSE proc' = proc /\ pc' = "read"
    /\ UNCHANGED << registry, hidraw_device, ctx, packet1, direction, rep, op >>
    /\ UNCHANGED serverVars
    /\ UNCHANGED logVars
    /\ UNCHANGED otherPrograms

\* A mutant of EndSession: main returns what start_daemon returned, so the
\* process ends with the session.
EndSessionThenExit ==
    /\ proc = "running" /\ pc = "cleanup"
    /\ ctx' = "none"
    /\ inflight' = <<>>
    /\ mutex' = FALSE
    /\ proc' = "exit_session"
    /\ UNCHANGED << pc, registry, hidraw_device, packet1, direction, rep, op, sinks, current_volume >>
    /\ UNCHANGED logVars
    /\ UNCHANGED otherPrograms

\* Lines 183-195: the stream is closed, the context and the mainloop are
\* released (no callback runs after pa_threaded_mainloop_stop), the mutex
\* is destroyed; start_daemon returns 0 to main's line 267.
EndSession ==
    /\ proc = "running" /\ pc = "cleanup"
    /\ ctx' = "none"
    /\ inflight' = <<>>
    /\ mutex' = FALSE
    /\ pc' = "notfound"
    /\ UNCHANGED << proc, registry, hidraw_device, packet1, direction, rep, op, sinks, current_volume >>
    /\ UNCHANGED logVars
    /\ UNCHANGED otherPrograms

(***************************************************************************)
(* The callbacks, run by the mainloop thread.                              *)
(***************************************************************************)
\* A mutant of connected_cb: a failed context is only logged.
connected_cb_logs_failure(cs) == "running"

\* connected_cb (lines 104-121): what becomes of the process when the
\* context enters state cs.
connected_cb(cs) ==
    IF cs = "READY" THEN "running"
    ELSE IF cs = "FAILED" \/ cs = "TERMINATED" THEN "exit_connection"
    ELSE "running"

\* The status the process ends with: exit(EXIT_FAILURE) at lines 117 and
\* 244; -1 stands for no exit status (running, or killed by abort()).
ExitStatus(p) ==
    IF p = "exit_connection" \/ p = "exit_registry" THEN EXIT_FAILURE ELSE -1

\* The handshake moves on one state; connected_cb is called with it.
ContextAdvances ==
    /\ proc = "running" /\ ctx \in ConnectingStates
    /\ LET k == CHOOSE j \in 1..Len(Connecting) : Connecting[j] = ctx
           cs == IF k < Len(Connecting) THEN Connecting[k + 1] ELSE "READY"
       IN /\ ctx' = cs
          /\ proc' = connected_cb(cs)
    /\ UNCHANGED << registry, mutex >>
    /\ UNCHANGED readerVars
    /\ UNCHANGED serverVars
    /\ UNCHANGED logVars
    /\ UNCHANGED otherPrograms

\* The connection is refused or lost; connected_cb is called with
\* PA_CONTEXT_FAILED.
ContextFails ==
    /\ proc = "running" /\ ctx \in ConnectingStates \cup {"READY"}
    /\ ctx' = "FAILED"
    /\ proc' = connected_cb("FAILED")
    /\ UNCHANGED << registry, mutex >>
    /\ UNCHANGED readerVars
    /\ UNCHANGED serverVars
    /\ UNCHANGED logVars
    /\ UNCHANGED otherPrograms

\* The reply to the oldest request is a sink list: sink_list_cb runs for
\* every sink and for eol; its set_volume calls queue their requests.
DispatchSinkList ==
    /\ proc = "running" /\ ctx = "READY"
    /\ inflight # <<>> /\ Head(inflight).kind = "list"
    /\ LET req == Head(inflight)
           res == ListSinks([aborted |-> FALSE, current_volume |-> current_volume,
                             requests |-> <<>>],
                            req.rep, sinks, 1, req.direction)
       IN IF res.aborted
          THEN /\ proc' = "abort_direction"
               /\ UNCHANGED << inflight, current_volume, lastList >>
          ELSE /\ proc' = proc
               /\ inflight' = Tail(inflight) \o res.requests
               /\ current_volume' = res.current_volume
               /\ lastList' = [rep |-> req.rep, direction |-> req.direction,
                               table |-> sinks, requests |-> res.requests]
    /\ UNCHANGED << registry, ctx, mutex, sinks, status, lastEnum, lastCb >>
    /\ UNCHANGED readerVars
    /\ UNCHANGED otherPrograms

\* A mutant of set_volume_cb: the mutex is unlocked on success only.
set_volume_cb_keeps_on_failure(success, new_volume) ==
    IF success
    THEN [status |-> "Volume at", volume |-> new_volume, unlock |-> TRUE]
    ELSE [status |-> "Failed to set volume.", volume |-> 0, unlock |-> FALSE]

\* set_volume_cb (lines 41-57); new_volume is what userdata points at, the
\* static current_volume, which is never NULL.
set_volume_cb(success, new_volume) ==
    IF success
    THEN [status |-> "Volume at", volume |-> new_volume, unlock |-> TRUE]
    ELSE [status |-> "Failed to set volume.", volume |-> 0, unlock |-> TRUE]

\* The server's table after it has carried out a set-volume request.
ApplyVolume(table, req) ==
    [k \in 1..Len(table) |->
        IF table[k].index = req.index
        THEN [table[k] EXCEPT !.volume = req.volume] ELSE table[k]]

\* The reply to the oldest request is that of a set-volume, which the
\* server has carried out or refused: set_volume_cb runs.
DispatchSetVolume ==
    /\ proc = "running" /\ ctx = "READY"
    /\ inflight # <<>> /\ Head(inflight).kind = "set"
    /\ \E success \in BOOLEAN :
        LET req == Head(inflight)
            cb == set_volume_cb(success, current_volume)
        IN /\ sinks' = IF success THEN ApplyVolume(sinks, req) ELSE sinks
           /\ status' = cb.status
           /\ mutex' = IF cb.unlock THEN FALSE ELSE mutex
           /\ lastCb' = [rep |-> req.rep, success |-> success, volume |-> cb.volume]
    /\ inflight' = Tail(inflight)
    /\ UNCHANGED << proc, registry, ctx, current_volume, lastEnum, lastList >>
    /\ UNCHANGED readerVars
    /\ UNCHANGED otherPrograms

(***************************************************************************)
(* Specifications.                                                         *)
(***************************************************************************)
\* The steps of the thread of main().
MainThread ==
    \/ FindDevice
    \/ CouldntFind
    \/ Sleep
    \/ OpenDevice
    \/ Connect
    \/ LockForRequest
    \/ RequestSinkList
    \/ LockForResult
    \/ SeeHowItWent
    \/ EndSession

\* The steps of the mainloop thread that answer a request.
Dispatch ==
    \/ DispatchSinkList
    \/ DispatchSetVolume

Next ==
    \/ MainThread
    \/ Dispatch
    \/ ReadReport
    \/ StreamEnd
    \/ Replug
    \/ ContextAdvances
    \/ ContextFails

Spec == Init /\ [][Next]_vars

\* A thread that can run does run, and the server answers every request;
\* nothing is assumed of the device, of the registry or of the handshake.
FairSpec == Spec /\ WF_vars(MainThread) /\ WF_vars(Dispatch)

(***************************************************************************)
(* find_hidraw_device (lines 198-249) taken alone: the call is applied to  *)
(* every directory of up to MaxEntries entries.                            *)
(***************************************************************************)
\* The daemon's variables while another program is the one modelled.
DaemonIdle ==
    /\ pc = "off" /\ proc = "off" /\ registry = "unopenable"
    /\ hidraw_device = NULL /\ ctx = "none" /\ mutex = FALSE
    /\ packet1 = 0 /\ direction = 0 /\ rep = 0 /\ op = 0
    /\ inflight = <<>> /\ sinks = <<>> /\ current_volume = 0
    /\ status = "none" /\ lastEnum = NoEnum /\ lastList = NoList
    /\ lastCb = NoCb

\* The headset behind another bus prefix and interface number.
LinkG933Bluetooth == <<"0", "0", "0", "5", ":">> \o DEVICE_USB_ID \o <<".", "1">>

\* The k-th entry of a directory: its d_name is "hidraw<k-1>", and it has
\* no device link or one of three link targets.
EntryKinds == {"nolink", "mouse", "g933", "g933bt"}
DirEntry(k, kind) ==
    IF kind = "nolink"
    THEN [d_name |-> <<"hidraw", k - 1>>, islink |-> FALSE, link |-> <<>>]
    ELSE Hidraw(<<"hidraw", k - 1>>,
                IF kind = "mouse" THEN LinkMouse
                ELSE IF kind = "g933" THEN LinkG933 ELSE LinkG933Bluetooth)

\* Every directory the call is tried on, and one that cannot be opened.
SysfsStates ==
    { [openable |-> FALSE, entries |-> <<>>] } \cup
    UNION { { [openable |-> TRUE,
               entries |-> [k \in 1..n |-> DirEntry(k, kinds[k])]] :
              kinds \in [1..n -> EntryKinds] } : n \in 0..MaxEntries }

LocatorInit ==
    /\ DaemonIdle
    /\ VolumeToolIdle
    /\ NotifierIdle
    /\ ThrottleIdle
    /\ sysfs \in SysfsStates
    /\ located = NotCalled

\* const char *hidraw_device = find_hidraw_device();
Locate ==
    /\ located = NotCalled
    /\ located' = find_hidraw_device(sysfs)
    /\ UNCHANGED << sysfs, exceptLocator >>

LocatorNext == Locate

LocatorSpec == LocatorInit /\ [][LocatorNext]_vars

(***************************************************************************)
(* volume-logitech.c: the tool connects, lists the sinks once, sets the    *)
(* volume of one of them and quits.  It runs a plain pa_mainloop in the    *)
(* thread of main(), so every callback is one atomic step.                 *)
(***************************************************************************)
VOLUME_INCREMENT_DEFAULT == 500
VOLUME_INCREMENT_HEADSET == 100
\* "alsa_output.pci-0000_00_1f.3.analog-stereo"
SINK_NAME_DEFAULT ==
    <<"a", "l", "s", "a", "_", "o", "u", "t", "p", "u", "t", ".", "p", "c",
      "i", "-", "0", "0", "0", "0", "_", "0", "0", "_", "1", "f", ".", "3",
      ".", "a", "n", "a", "l", "o", "g", "-", "s", "t", "e", "r", "e", "o">>
\* VOLUME_UP is 1 as in the daemon; VOLUME_DOWN is -1 here.
vl_VOLUME_DOWN == -1

\* Command lines: no argument, "up", "down", "mute", and two arguments.
ArgUp == <<"u", "p">>
ArgDown == <<"d", "o", "w", "n">>
ArgMute == <<"m", "u", "t", "e">>
Argvs == { <<>>, <<ArgUp>>, <<ArgDown>>, <<ArgMute>>, <<ArgUp, ArgDown>> }

\* The sink tables of the server: up to MaxSinks sinks named as the default
\* output, as the headset or as neither, with indices counted from 0 or
\* from 1.
vl_SinkNames == {SINK_NAME_DEFAULT, NameHeadset, NameNear}
vl_SinkTables ==
    UNION { { [k \in 1..n |->
                 [index |-> base + k - 1, name |-> nm[k],
                  volume |-> CVolumes[(k % Len(CVolumes)) + 1]]] :
                nm \in [1..n -> vl_SinkNames], base \in {0, 1} } :
            n \in 0..MaxSinks }

\* set_volume (lines 51-62) for the sink sink_index, whose volume is kept
\* in the static named by which; the request is handed to
\* pa_context_set_sink_volume_by_index.
vl_set_volume(acc, which, sink_index, volume, increment) ==
    LET cur == (pa_cvolume_max(volume)
                  + UnsignedProduct(increment, acc.volume_direction)) % Word
        vol == pa_cvolume_set(Len(volume), cur)
        req == [kind |-> "set", which |-> which, index |-> sink_index,
                volume |-> vol]
    IN IF which = "default"
       THEN [acc EXCEPT !.sink_default_volume = vol,
                        !.requests = Append(@, req)]
       ELSE [acc EXCEPT !.sink_headset_volume = vol,
                        !.requests = Append(@, req)]

\* Lines 75-102 of sink_list_cb: the eol call and the three kinds of name.
vl_sink_list_cb_branch(acc, i, eol) ==
    IF eol
    THEN IF acc.sink_default # 0
         THEN vl_set_volume([acc EXCEPT !.done = TRUE], "default",
                            acc.sink_default, acc.sink_default_volume,
                            VOLUME_INCREMENT_DEFAULT)
         ELSE [acc EXCEPT !.quit = <<1>>]
    ELSE IF strstr(i.name, SINK_NAME_DEFAULT)
    THEN [acc EXCEPT !.sink_default = i.index, !.sink_default_volume = i.volume]
    ELSE IF strstr(i.name, SINK_NAME_HEADSET)
    THEN [acc EXCEPT !.sink_headset = i.index, !.sink_headset_volume = i.volume]
    ELSE acc

\* A mutant of sink_list_cb: the done flag is not looked at.
vl_sink_list_cb_without_done(acc, i, eol) ==
    LET a == vl_sink_list_cb_branch(acc, i, eol)
    IN IF a.sink_headset # 0
       THEN vl_set_volume([a EXCEPT !.done = TRUE], "headset", a.sink_headset,
                          a.sink_headset_volume, VOLUME_INCREMENT_HEADSET)
       ELSE a

\* sink_list_cb (lines 64-110).  acc carries the statics, the requests
\* issued and the value given to pa_mainloop_quit, if it was called.
vl_sink_list_cb(acc, i, eol) ==
    IF acc.done THEN acc
    ELSE LET a == vl_sink_list_cb_branch(acc, i, eol)
         IN IF a.sink_headset # 0
            THEN vl_set_volume([a EXCEPT !.done = TRUE], "headset",
                               a.sink_headset, a.sink_headset_volume,
                               VOLUME_INCREMENT_HEADSET)
            ELSE a

\* The reply to pa_context_get_sink_info_list: the callback for every sink
\* in the server's order, then once with eol.
RECURSIVE vl_ListSinks(_, _, _)
vl_ListSinks(acc, table, k) ==
    IF k > Len(table)
    THEN vl_sink_list_cb(acc, [index |-> 0, name |-> <<>>, volume |-> <<0>>], TRUE)
    ELSE vl_ListSinks(vl_sink_list_cb(acc, table[k], FALSE), table, k + 1)

VolumeToolInit ==
    /\ DaemonIdle
    /\ LocatorIdle
    /\ NotifierIdle
    /\ ThrottleIdle
    /\ argv \in Argvs
    /\ vl_pc = "main"
    /\ volume_direction = 0
    /\ vl_ctx = "none"
    /\ vl_sinks \in vl_SinkTables
    /\ vl_inflight = <<>>
    /\ sink_default = 0 /\ sink_headset = 0
    /\ sink_default_volume = <<>> /\ sink_headset_volume = <<>>
    /\ done = FALSE
    /\ vl_issued = <<>>
    /\ retval = NoRetval

\* main, lines 143-158: the argument is read and the connection started;
\* pa_mainloop_run is entered.
vl_main ==
    /\ vl_pc = "main"
    /\ IF Len(argv) + 1 # 2
       THEN /\ retval' = 2 /\ vl_pc' = "returned"
            /\ UNCHANGED << volume_direction, vl_ctx >>
       ELSE IF strstr(argv[1], ArgUp)
       THEN /\ volume_direction' = VOLUME_UP
            /\ vl_ctx' = Connecting[1] /\ vl_pc' = "run" /\ retval' = retval
       ELSE IF strstr(argv[1], ArgDown)
       THEN /\ volume_direction' = vl_VOLUME_DOWN
            /\ vl_ctx' = Connecting[1] /\ vl_pc' = "run" /\ retval' = retval
       ELSE /\ retval' = 1 /\ vl_pc' = "returned"
            /\ UNCHANGED << volume_direction, vl_ctx >>
    /\ UNCHANGED << argv, vl_sinks, vl_inflight, vl_statics, vl_issued >>
    /\ UNCHANGED exceptVolumeTool

\* connected_cb (lines 112-132) for the state cs: the sink list is asked
\* for, or the mainloop is told to quit with 1, or nothing is done.
vl_connected_cb(cs) ==
    IF cs = "READY" THEN [list |-> TRUE, quit |-> <<>>]
    ELSE IF cs = "FAILED" \/ cs = "TERMINATED" THEN [list |-> FALSE, quit |-> <<1>>]
    ELSE [list |-> FALSE, quit |-> <<>>]

\* The context enters the state cs and connected_cb runs; a mainloop that
\* was told to quit returns from pa_mainloop_run with the value given.
vl_ContextEnters(cs) ==
    LET cb == vl_connected_cb(cs)
    IN /\ vl_ctx' = cs
       /\ vl_inflight' = IF cb.list THEN Append(vl_inflight, [kind |-> "list"])
                         ELSE vl_inflight
       /\ IF cb.quit # <<>>
          THEN vl_pc' = "returned" /\ retval' = cb.quit[1]
          ELSE vl_pc' = vl_pc /\ retval' = retval

vl_ContextAdvances ==
    /\ vl_pc = "run" /\ vl_ctx \in ConnectingStates
    /\ LET k == CHOOSE j \in 1..Len(Connecting) : Connecting[j] = vl_ctx
       IN vl_ContextEnters(IF k < Len(Connecting) THEN Connecting[k + 1] ELSE "READY")
    /\ UNCHANGED << argv, volume_direction, vl_sinks, vl_statics, vl_issued >>
    /\ UNCHANGED exceptVolumeTool

vl_ContextFails ==
    /\ vl_pc = "run" /\ vl_ctx \in ConnectingStates \cup {"READY"}
    /\ vl_ContextEnters("FAILED")
    /\ UNCHANGED << argv, volume_direction, vl_sinks, vl_statics, vl_issued >>
    /\ UNCHANGED exceptVolumeTool

\* The reply to the list request: sink_list_cb runs for every sink and
\* for eol.
vl_DispatchSinkList ==
    /\ vl_pc = "run" /\ vl_ctx = "READY"
    /\ vl_inflight # <<>> /\ Head(vl_inflight).kind = "list"
    /\ LET res == vl_ListSinks(
                     [done |-> done, sink_default |-> sink_default,
                      sink_headset |-> sink_headset,
                      sink_default_volume |-> sink_default_volume,
                      sink_headset_volume |-> sink_headset_volume,
                      volume_direction |-> volume_direction,
                      requests |-> <<>>, quit |-> <<>>],
                     vl_sinks, 1)
       IN /\ done' = res.done
          /\ sink_default' = res.sink_default
          /\ sink_headset' = res.sink_headset
          /\ sink_default_volume' = res.sink_default_volume
          /\ sink_headset_volume' = res.sink_headset_volume
          /\ vl_issued' = vl_issued \o res.requests
          /\ vl_inflight' = Tail(vl_inflight) \o res.requests
          /\ IF res.quit # <<>>
             THEN vl_pc' = "returned" /\ retval' = res.quit[1]
             ELSE vl_pc' = vl_pc /\ retval' = retval
    /\ UNCHANGED << argv, volume_direction, vl_ctx, vl_sinks >>
    /\ UNCHANGED exceptVolumeTool

\* set_volume_cb (lines 37-49): the value given to pa_mainloop_quit.
vl_set_volume_cb(success) == IF success THEN 0 ELSE 1

\* The reply to a set-volume request, carried out or refused by the
\* server: set_volume_cb runs and the mainloop quits.
vl_DispatchSetVolume ==
    /\ vl_pc = "run" /\ vl_ctx = "READY"
    /\ vl_inflight # <<>> /\ Head(vl_inflight).kind = "set"
    /\ \E success \in BOOLEAN :
        /\ vl_sinks' = IF success THEN ApplyVolume(vl_sinks, Head(vl_inflight))
                        ELSE vl_sinks
        /\ retval' = vl_set_volume_cb(success)
    /\ vl_pc' = "returned"
    /\ vl_inflight' = Tail(vl_inflight)
    /\ UNCHANGED << argv, volume_direction, vl_ctx, vl_statics, vl_issued >>
    /\ UNCHANGED exceptVolumeTool

VolumeToolNext ==
    \/ vl_main
    \/ vl_ContextAdvances
    \/ vl_ContextFails
    \/ vl_DispatchSinkList
    \/ vl_DispatchSetVolume

VolumeToolSpec == VolumeToolInit /\ [][VolumeToolNext]_vars

(***************************************************************************)
(* corosync-quorum-notify.c: the notifier sets up quorum tracking, reads   *)
(* the local node id and then dispatches quorum notifications one at a     *)
(* time; quorum_notification builds a command line and runs it.            *)
(***************************************************************************)
\* char node_list[256] and char command[512].
NODE_LIST_SIZE == 256
COMMAND_SIZE == 512

\* snprintf "%u": the decimal digits of n.
Digits == <<"0", "1", "2", "3", "4", "5", "6", "7", "8", "9">>
RECURSIVE UDec(_)
UDec(n) ==
    IF n < 10 THEN <<Digits[n + 1]>>
    ELSE UDec(n \div 10) \o <<Digits[(n % 10) + 1]>>

\* strcat(dest, src) into an array of size bytes: the text, and whether the
\* text with its terminator went past the end of the array.
strcat(dest, src, size) ==
    [text |-> dest.text \o src,
     overflow |-> dest.overflow \/ Len(dest.text) + Len(src) + 1 > size]

\* What the passes first..last of the loop of lines 60-67 append to
\* node_list: a comma before every entry but the one of index 0, then the
\* entry in decimal (sequences are counted from 1 here, so pass i appends
\* view_list[i + 1]).  strcat only ever appends, so the passes are joined
\* by halves, and node_list is past its end after the last pass exactly
\* when it was past its end after some pass.
RECURSIVE NodeList(_, _, _)
NodeList(first, last, view_list) ==
    IF first > last THEN [text |-> <<>>, overflow |-> FALSE]
    ELSE IF first = last
    THEN LET empty == [text |-> <<>>, overflow |-> FALSE]
             withComma == IF first # 0
                          THEN strcat(empty, <<",">>, NODE_LIST_SIZE)
                          ELSE empty
         IN strcat(withComma, UDec(view_list[first + 1]), NODE_LIST_SIZE)
    ELSE LET middle == (first + last) \div 2
         IN strcat(NodeList(first, middle, view_list),
                   NodeList(middle + 1, last, view_list).text,
                   NODE_LIST_SIZE)

\* snprintf into an array of size bytes: the text cut to size - 1.
snprintf(size, text) ==
    IF Len(text) > size - 1 THEN SubSeq(text, 1, size - 1) ELSE text

QuorateText == <<"q", "u", "o", "r", "a", "t", "e">>
NotQuorateText == <<"n", "o", "t", "_">> \o QuorateText

\* quorum_notification (lines 49-77): the command given to system(), and
\* whether node_list was written past its end on the way.
quorum_notification(quorate, view_list_entries, view_list, prog, id) ==
    LET joined == NodeList(0, view_list_entries - 1, view_list)
        quorate_text == IF quorate # 0 THEN QuorateText ELSE NotQuorateText
    IN [command |-> snprintf(COMMAND_SIZE,
                       prog \o <<" ">> \o quorate_text \o <<" ">> \o UDec(id)
                            \o <<" ">> \o joined.text),
        overflow |-> joined.overflow]

\* The program named on the command line, and the command lines.
HookProgram == <<"/", "b", "i", "n", "/", "h", "o", "o", "k">>
qn_Argvs == { <<>>, <<HookProgram>> }

\* Node ids: a small one, one of two digits and the largest one of ten
\* digits that the model's integers hold.
NodeIds == {1, 20, 2147483647}
\* View lists: every list of up to MaxView of those, and the view of a
\* cluster of LargeCluster nodes whose ids have ten digits.
LargeCluster == 24
LargeView == [k \in 1..LargeCluster |-> 2147483647 - k]
ViewLists ==
    UNION { [1..n -> NodeIds] : n \in 0..MaxView } \cup { LargeView }
Notifications == [quorate : {0, 1}, view_list : ViewLists]

\* The command after node_list was written past its end, when the bytes
\* written there are read back changed.
Garbled == <<"garbled">>

NotifierInit ==
    /\ DaemonIdle
    /\ LocatorIdle
    /\ VolumeToolIdle
    /\ ThrottleIdle
    /\ qn_argv \in qn_Argvs
    /\ qn_pc = "main"
    /\ ext_program = NULL
    /\ node_id = 0
    /\ local_nodeid \in {1, 20}
    /\ qn_pending = <<>>
    /\ qn_sent = 0
    /\ dispatched = 0
    /\ notification = NoNotification
    /\ command = <<>>
    /\ systemCalls = 0
    /\ qn_retval = NoRetval

\* One library call of main's set-up: on CS_OK main goes on to next, on an
\* error it returns err.
qn_LibraryCall(here, next, err) ==
    /\ qn_pc = here
    /\ \E ok \in BOOLEAN :
        IF ok THEN qn_pc' = next /\ qn_retval' = qn_retval
        ELSE qn_pc' = "returned" /\ qn_retval' = err

\* cs_error_t values an unsuccessful call returns: CS_ERR_LIBRARY and
\* CS_ERR_TRY_AGAIN stand for all.
CsErrors == {2, 6}

\* Lines 88-100: the usage check, ext_program and quorum_initialize.
qn_Initialize ==
    /\ qn_pc = "main"
    /\ IF Len(qn_argv) + 1 # 2
       THEN /\ qn_pc' = "returned" /\ qn_retval' = 1
            /\ ext_program' = ext_program
       ELSE /\ ext_program' = qn_argv[1]
            /\ qn_LibraryCall("main", "trackstart", 1)
    /\ UNCHANGED << qn_argv, node_id, local_nodeid, qn_pending, qn_sent,
                    dispatched, notification, command, systemCalls >>
    /\ UNCHANGED exceptNotifier

\* Lines 102-106: quorum_trackstart(handle, CS_TRACK_CHANGES).
qn_TrackStart ==
    /\ \E err \in CsErrors : qn_LibraryCall("trackstart", "fd_get", err)
    /\ UNCHANGED << qn_argv, ext_program, node_id, local_nodeid, qn_pending,
                    qn_sent, dispatched, notification, command, systemCalls >>
    /\ UNCHANGED exceptNotifier

\* Lines 108-114: quorum_fd_get.
qn_FdGet ==
    /\ \E err \in CsErrors : qn_LibraryCall("fd_get", "cpg_initialize", err)
    /\ UNCHANGED << qn_argv, ext_program, node_id, local_nodeid, qn_pending,
                    qn_sent, dispatched, notification, command, systemCalls >>
    /\ UNCHANGED exceptNotifier

\* Lines 116-120: cpg_initialize.
qn_CpgInitialize ==
    /\ qn_LibraryCall("cpg_initialize", "cpg_local_get", 1)
    /\ UNCHANGED << qn_argv, ext_program, node_id, local_nodeid, qn_pending,
                    qn_sent, dispatched, notification, command, systemCalls >>
    /\ UNCHANGED exceptNotifier

\* Lines 122-126: cpg_local_get stores this node's id in node_id.
qn_CpgLocalGet ==
    /\ qn_LibraryCall("cpg_local_get", "poll", 1)
    /\ node_id' = IF qn_pc' = "poll" THEN local_nodeid ELSE node_id
    /\ UNCHANGED << qn_argv, ext_program, local_nodeid, qn_pending, qn_sent,
                    dispatched, notification, command, systemCalls >>
    /\ UNCHANGED exceptNotifier

\* The cluster sends a quorum notification to a client that tracks; it
\* waits at the quorum fd.
qn_ClusterNotifies ==
    /\ qn_pc \in {"fd_get", "cpg_initialize", "cpg_local_get", "poll", "dispatch"}
    /\ qn_sent < MaxNotifications
    /\ \E n \in Notifications : qn_pending' = Append(qn_pending, n)
    /\ qn_sent' = qn_sent + 1
    /\ UNCHANGED << qn_argv, qn_pc, ext_program, node_id, local_nodeid,
                    dispatched, notification, command, systemCalls, qn_retval >>
    /\ UNCHANGED exceptNotifier

\* Lines 129-135: poll returns -1, or with POLLIN set.  (A poll that times
\* out leads by sd_notify back to the poll and changes nothing.)
qn_Poll ==
    /\ qn_pc = "poll"
    /\ \/ qn_pc' = "returned" /\ qn_retval' = -1
       \/ qn_pending # <<>> /\ qn_pc' = "dispatch" /\ qn_retval' = qn_retval
    /\ UNCHANGED << qn_argv, ext_program, node_id, local_nodeid, qn_pending,
                    qn_sent, dispatched, notification, command, systemCalls >>
    /\ UNCHANGED exceptNotifier

\* Lines 136-143: quorum_dispatch(handle, CS_DISPATCH_ONE) fails, or calls
\* quorum_notification for the oldest notification, which runs the
\* command.  When node_list was written past its end the behaviour is
\* undefined: the command is the one meant or a garbled one, and the
\* process goes on or is killed when the function returns.
qn_Dispatch ==
    /\ qn_pc = "dispatch"
    /\ \/ /\ \E err \in CsErrors : qn_pc' = "returned" /\ qn_retval' = err
          /\ UNCHANGED << qn_pending, dispatched, notification, command,
                          systemCalls >>
       \/ LET n == Head(qn_pending)
              res == quorum_notification(n.quorate, Len(n.view_list),
                                         n.view_list, ext_program, node_id)
          IN /\ qn_pending' = Tail(qn_pending)
             /\ dispatched' = dispatched + 1
             /\ notification' = n
             /\ systemCalls' = systemCalls + 1
             /\ qn_retval' = qn_retval
             /\ IF res.overflow
                THEN /\ command' \in {res.command, Garbled}
                     /\ qn_pc' \in {"poll", "killed"}
                ELSE /\ command' = res.command
                     /\ qn_pc' = "poll"
    /\ UNCHANGED << qn_argv, ext_program, node_id, local_nodeid, qn_sent >>
    /\ UNCHANGED exceptNotifier

NotifierNext ==
    \/ qn_Initialize
    \/ qn_TrackStart
    \/ qn_FdGet
    \/ qn_CpgInitialize
    \/ qn_CpgLocalGet
    \/ qn_ClusterNotifies
    \/ qn_Poll
    \/ qn_Dispatch

NotifierSpec == NotifierInit /\ [][NotifierNext]_vars

(***************************************************************************)
(* throttle.c: the throttler stops and continues the target in a loop; the *)
(* handler end() of SIGINT, SIGTERM, SIGHUP and SIGSEGV continues it and   *)
(* exits.  The handler runs in the thread of main(), which it interrupts   *)
(* between two calls, and main does not go on after it.                    *)
(***************************************************************************)
\* <stdlib.h>; exit(SIGSEGV) is exit(11).
EXIT_SUCCESS == 0
SIGSEGV == 11

\* signal() of lines 130-133, by name.
Handled == {"SIGINT", "SIGTERM", "SIGHUP", "SIGSEGV"}

\* The target's pid on the command line, or no argument after the options.
TargetPid == 4321
th_Argvs == { <<>>, <<TargetPid>> }

ThrottleInit ==
    /\ DaemonIdle
    /\ LocatorIdle
    /\ VolumeToolIdle
    /\ NotifierIdle
    /\ th_argv \in th_Argvs
    /\ th_pc = "main"
    /\ pid = 0
    /\ cycles = 0
    /\ handling = <<>>
    /\ th_sent = <<>>
    /\ th_status = NoRetval

\* main, lines 101-156: the options and the pid are read, or the usage
\* error ends the process; the handlers are set, the process may detach
\* with daemon(), which keeps the handlers, and the loop is entered.
th_main ==
    /\ th_pc = "main"
    /\ IF th_argv = <<>>
       THEN th_pc' = "exited" /\ th_status' = EXIT_FAILURE /\ pid' = pid
       ELSE th_pc' = "sleep_on" /\ th_status' = th_status /\ pid' = th_argv[1]
    /\ UNCHANGED << th_argv, cycles, handling, th_sent >>
    /\ UNCHANGED exceptThrottle

\* Lines 168-170: usleep(sleep_on) is over and SIGSTOP is sent.
th_Stop ==
    /\ th_pc = "sleep_on" /\ handling = <<>>
    /\ cycles < MaxCycles
    /\ cycles' = cycles + 1
    /\ th_sent' = Append(th_sent, [sig |-> "SIGSTOP", by |-> "main"])
    /\ th_pc' = "sleep_off"
    /\ UNCHANGED << th_argv, pid, handling, th_status >>
    /\ UNCHANGED exceptThrottle

\* Lines 171-173: usleep(sleep_off) is over and SIGCONT is sent.
th_Cont ==
    /\ th_pc = "sleep_off" /\ handling = <<>>
    /\ th_sent' = Append(th_sent, [sig |-> "SIGCONT", by |-> "main"])
    /\ th_pc' = "sleep_on"
    /\ UNCHANGED << th_argv, pid, cycles, handling, th_status >>
    /\ UNCHANGED exceptThrottle

\* A signal of Handled is delivered.  Before signal() was called it ends
\* the process by its default action; afterwards end(signum) is entered,
\* also inside a call of end() for another signal (a signal is blocked
\* while its own handler runs).
th_Signal ==
    /\ th_pc \in {"main", "sleep_on", "sleep_off"}
    /\ \E signum \in Handled :
        IF th_pc = "main"
        THEN th_pc' = "killed" /\ handling' = handling
        ELSE /\ \A k \in 1..Len(handling) : handling[k].signum # signum
             /\ handling' = Append(handling, [signum |-> signum, at |-> "kill"])
             /\ th_pc' = th_pc
    /\ UNCHANGED << th_argv, pid, cycles, th_sent, th_status >>
    /\ UNCHANGED exceptThrottle

\* A mutant of end: the process exits without the last SIGCONT.
end_without_sigcont(signum) ==
    [kill |-> <<>>,
     status |-> IF signum = "SIGSEGV" THEN SIGSEGV ELSE EXIT_SUCCESS]

\* end (lines 64-78): the signals it sends to pid and the status it exits
\* with.
end(signum) ==
    [kill |-> <<"SIGCONT">>,
     status |-> IF signum = "SIGSEGV" THEN SIGSEGV ELSE EXIT_SUCCESS]

\* Line 73 of the innermost call of end(): kill(pid, SIGCONT).
th_EndKill ==
    /\ th_pc \in {"sleep_on", "sleep_off"}
    /\ handling # <<>> /\ handling[Len(handling)].at = "kill"
    /\ LET h == handling[Len(handling)]
       IN /\ th_sent' = th_sent \o [k \in 1..Len(end(h.signum).kill) |->
                                       [sig |-> end(h.signum).kill[k], by |-> "end"]]
          /\ handling' = [handling EXCEPT ![Len(handling)].at = "exit"]
    /\ UNCHANGED << th_argv, th_pc, pid, cycles, th_status >>
    /\ UNCHANGED exceptThrottle

\* Lines 74-77 of the innermost call of end(): exit.
th_EndExit ==
    /\ th_pc \in {"sleep_on", "sleep_off"}
    /\ handling # <<>> /\ handling[Len(handling)].at = "exit"
    /\ th_status' = end(handling[Len(handling)].signum).status
    /\ th_pc' = "exited"
    /\ UNCHANGED << th_argv, pid, cycles, handling, th_sent >>
    /\ UNCHANGED exceptThrottle

ThrottleNext ==
    \/ th_main
    \/ th_Stop
    \/ th_Cont
    \/ th_Signal
    \/ th_EndKill
    \/ th_EndExit

ThrottleSpec == ThrottleInit /\ [][ThrottleNext]_vars

(***************************************************************************)
(* Properties.                                                             *)
(***************************************************************************)
\* The sinks of a table whose name contains the target, as positions.
Matches(table) ==
    { k \in 1..Len(table) : strstr(table[k].name, SINK_NAME_HEADSET) }

\* C1: at most one enumerate+set-volume round trip is outstanding: all the
\* requests that have not had their callback belong to one report, so no
\* enumerate of a later report is out while a set-volume of an earlier one
\* is.
C1_OneRoundTripOutstanding ==
    \A j, k \in 1..Len(inflight) : inflight[j].rep = inflight[k].rep

\* C2: every volume handed to pa_context_set_sink_volume_by_index lies in
\* [0, PA_VOLUME_MAX], on every channel.
C2_VolumeInRange ==
    \A k \in 1..Len(lastList.requests) :
        \A ch \in 1..Len(lastList.requests[k].volume) :
            /\ lastList.requests[k].volume[ch] >= 0
            /\ lastList.requests[k].volume[ch] <= PA_VOLUME_MAX

\* C2, its cases: a Down request for a sink whose maximum was below the
\* increment, so that the unsigned sum wrapped.
C2_DownBelowIncrement ==
    \E k \in 1..Len(lastList.requests) :
        /\ lastList.requests[k].direction = VOLUME_DOWN
        /\ pa_cvolume_max(lastList.requests[k].seen) < VOLUME_INCREMENT

\* C3: with no matching output the report is a no-op: once the sink list of
\* the report in hand has been dispatched without a request, the gate is
\* idle, so that the thread waiting at line 168 goes on.
C3_NoMatchReleasesGate ==
    (pc = "lock2" /\ lastList.rep = rep /\ lastList.requests = <<>>) => ~mutex

\* C4: one sink list causes at most one set-volume request, and it is for
\* the first sink of the list whose name contains the target.
C4_FirstMatchOnly ==
    /\ Len(lastList.requests) <= 1
    /\ \A k \in 1..Len(lastList.requests) :
         \E m \in Matches(lastList.table) :
            /\ \A n \in Matches(lastList.table) : m <= n
            /\ lastList.requests[k].index = lastList.table[m].index

\* C5: no request is made for a report whose direction byte is 0: the
\* thread is past the read loop only with a byte that is not 0, and every
\* enumerate and set-volume request carries a direction that is not 0.
C5_ZeroNeverRequests ==
    /\ pc \in {"lock1", "enum", "lock2", "see"} => (packet1 # 0 /\ direction # 0)
    /\ lastEnum.rep > 0 => lastEnum.direction # 0
    /\ \A k \in 1..Len(inflight) : inflight[k].direction # 0
    /\ \A k \in 1..Len(lastList.requests) : lastList.requests[k].direction # 0

\* C5, its case: a report with byte 0 was read after a directional one and
\* the thread is still reading, with no request made for it.
C5_ZeroReportDiscarded ==
    /\ pc = "read" /\ packet1 = 0 /\ rep > 0
    /\ lastEnum.rep = rep

\* C6: a set_volume_cb that reports failure unlocks the mutex as one that
\* reports success does and leaves the failure status; and once the
\* set-volume of the report in hand has failed, the thread waiting at line
\* 168 gets back to reading, unless the connection is lost first.
C6_FailureReleasesGate ==
    /\ [][DispatchSetVolume =>
            /\ ~mutex'
            /\ ~lastCb'.success => status' = "Failed to set volume."]_vars
    /\ (pc = "lock2" /\ lastCb.rep = rep /\ ~lastCb.success)
          ~> (pc = "read" \/ proc = "exit_connection")

\* C6, its case: the next report has been read after the set-volume of the
\* report before it failed.
C6_NextReportAfterFailure ==
    /\ pc = "lock1" /\ rep > 1
    /\ lastCb.rep = rep - 1 /\ ~lastCb.success
    /\ status = "Failed to set volume."

\* The gate is idle: the mutex is free and no request awaits its callback.
GateIdle == ~mutex /\ inflight = <<>>

\* C7: when the stream has ended with the gate idle, start_daemon returns
\* and main comes to find_hidraw_device again, unless the connection is
\* lost before the session is torn down; the sleep always leads to the next
\* pass; and a pass that finds the device starts a session in the running
\* process.
C7_StreamEndRetries ==
    /\ (pc = "cleanup" /\ GateIdle) ~> (pc = "find" \/ proc = "exit_connection")
    /\ [][(pc = "sleep" /\ pc' # pc) => (pc' = "find" /\ proc' = "running")]_vars
    /\ [][(pc = "find" /\ find_hidraw_device(Registry(registry)).ret # NULL /\ pc' # pc)
            => (pc' = "fopen" /\ proc' = "running")]_vars

\* C7, its case: a session is reading reports after an earlier session, in
\* which a volume was set, has ended.
C7_SecondSession ==
    /\ pc = "read" /\ proc = "running"
    /\ status = "Connected" /\ lastCb.rep > 0

\* C8: with exactly one matching sink, every channel of the request is
\* clamp(m + 200) for Up and clamp(m - 200) for Down, m the maximum channel
\* of the volume listed for that sink in the same sink list.
C8_ClampedStep ==
    Cardinality(Matches(lastList.table)) = 1 =>
        \A k \in 1..Len(lastList.requests) :
            LET req == lastList.requests[k]
                hit == CHOOSE n \in Matches(lastList.table) : TRUE
                m == pa_cvolume_max(lastList.table[hit].volume)
                want == IF req.direction = VOLUME_UP
                        THEN PA_CLAMP_VOLUME(m + VOLUME_INCREMENT)
                        ELSE PA_CLAMP_VOLUME(m - VOLUME_INCREMENT)
            IN \A ch \in 1..Len(req.volume) : req.volume[ch] = want

\* C9: every set-volume request is for the index of a sink of the same
\* sink list whose name contains the target; a list with no such sink
\* causes no request.
C9_OnlyTargetName ==
    /\ \A k \in 1..Len(lastList.requests) :
         \E n \in Matches(lastList.table) :
            lastList.table[n].index = lastList.requests[k].index
    /\ Matches(lastList.table) = {} => lastList.requests = <<>>

\* C9, its case: a list of two sinks, one of which only nearly has the
\* target's name, caused a request.
C9_RequestBesideNearName ==
    /\ Len(lastList.table) = 2
    /\ Cardinality(Matches(lastList.table)) = 1
    /\ Len(lastList.requests) = 1

\* C10: pa_context_get_sink_info_list is never called while the context is
\* not yet PA_CONTEXT_READY.
C10_EnumerateOnlyWhenReady ==
    lastEnum.rep > 0 => lastEnum.ctx = "READY"

\* C11: a context that has failed or was terminated ends the process with
\* exit status 1, whatever start_daemon was doing and whatever was in
\* flight; the process that has exited does nothing more, so the connection
\* is not tried again.
C11_ConnectionFailureExits ==
    /\ [](ctx \in {"FAILED", "TERMINATED"} =>
            (proc = "exit_connection" /\ ExitStatus(proc) = 1))
    /\ [][(ctx = "FAILED" \/ ctx = "TERMINATED") =>
            (proc' = proc /\ ctx' = ctx /\ pc' = pc /\ inflight' = inflight)]_vars

\* C11, its case: the context failed in the middle of a session while a
\* request was in flight.
C11_FailedInFlight ==
    /\ ctx = "FAILED" /\ inflight # <<>>
    /\ pc = "lock2" /\ proc = "exit_connection"

\* C12: after a fatal failure of the connection during a session the
\* process is still running (start_daemon returns to main, which sleeps and
\* looks for the device again).
C12_FailureReturnsToSupervisor ==
    ctx = "FAILED" => proc = "running"

\* C13: the process ends only by the exit on an unopenable registry or by
\* the exit on a failed connection.
C13_OnlyFatalTerminates ==
    proc \in {"running", "exit_registry", "exit_connection"}

\* C14: find_hidraw_device with a registry that cannot be opened ends the
\* process with a status that is not 0; with one that opens and holds no
\* matching entry, and when the device found cannot be opened, the process
\* keeps running and main goes by the notification and the sleep to the
\* next call of find_hidraw_device.
C14_UnopenableExitsNotFoundRetries ==
    /\ [](proc = "exit_registry" =>
            (~Registry(registry).openable /\ ExitStatus(proc) # 0))
    /\ [](pc \in {"notfound", "sleep"} => proc = "running")
    /\ [][(pc = "find" /\ ~Registry(registry).openable) =>
            (proc' = "exit_registry" /\ pc' = pc)]_vars
    /\ [][(pc = "find" /\ Registry(registry).openable
              /\ find_hidraw_device(Registry(registry)).ret = NULL) =>
            (proc' = "running" /\ pc' = "notfound")]_vars
    /\ [][(pc = "fopen" /\ pc' # "connect") =>
            (proc' = "running" /\ pc' = "notfound")]_vars
    /\ [][pc = "notfound" => (proc' = "running" /\ pc' = "sleep")]_vars
    /\ [][(pc = "sleep" /\ pc' # pc) => (proc' = "running" /\ pc' = "find")]_vars

\* C14, its case: the process has exited on a registry that could not be
\* opened, after a pass in which the registry opened and held no matching
\* entry.
C14_ExitAfterNotFoundPass ==
    /\ proc = "exit_registry" /\ pc = "find"
    /\ hidraw_device = NULL /\ status = "Couldn't find device."

\* C18: every directional report has its own enumerate request: when the
\* thread is past line 164 the request of the report in hand has been
\* issued, and when it reads or locks the last request issued is that of
\* the report before.
C18_EveryReportEnumerated ==
    /\ pc \in {"lock1", "enum"} => lastEnum.rep = rep - 1
    /\ pc \in {"read", "lock2", "see", "cleanup"} => lastEnum.rep = rep
    /\ pc \in {"lock2", "see"} => op = rep

\* C19: the "not found" status is given only in a pass of main's loop in
\* which find_hidraw_device found no device.
C19_NotFoundOnlyWithoutDevice ==
    (pc = "sleep" /\ status = "Couldn't find device.") => hidraw_device = NULL

\* The least element of a set of numbers.
Min(S) == CHOOSE x \in S : \A y \in S : x <= y

\* The entries of a directory whose device link contains DEVICE_USB_ID.
Hits(entries) ==
    { k \in 1..Len(entries) :
        entries[k].islink /\ strstr(entries[k].link, DEVICE_USB_ID) }

\* C15: on a directory that opens, find_hidraw_device returns NULL exactly
\* when no entry's link contains DEVICE_USB_ID, and otherwise "/dev/" with
\* the name of the first such entry in readdir order; entries without a
\* readable link are passed over.
C15_FirstMatchingEntry ==
    (located # NotCalled /\ sysfs.openable) =>
        /\ ~located.exits
        /\ (located.ret = NULL) <=> (Hits(sysfs.entries) = {})
        /\ Hits(sysfs.entries) # {} =>
              located.ret = <<"/dev/", sysfs.entries[Min(Hits(sysfs.entries))].d_name>>

\* C15, its case: the call returned the second entry of three, the first
\* having no readable link and the third matching too.
C15_SecondOfThree ==
    /\ Len(sysfs.entries) = 3
    /\ ~sysfs.entries[1].islink
    /\ Hits(sysfs.entries) = {2, 3}
    /\ located = [exits |-> FALSE, ret |-> <<"/dev/", <<"hidraw", 1>>>>]

\* The sinks of a table whose name the one-shot tool takes for the default
\* output, and those it takes for the headset.
vl_Defaults(table) ==
    { k \in 1..Len(table) : strstr(table[k].name, SINK_NAME_DEFAULT) }
vl_Headsets(table) ==
    { k \in 1..Len(table) :
        /\ ~strstr(table[k].name, SINK_NAME_DEFAULT)
        /\ strstr(table[k].name, SINK_NAME_HEADSET) }

\* C16 as the claim has it: a run of volume-logitech.c in which a default
\* output and a headset output are listed ends with two set-volume
\* requests issued.
C16_BothListedIssuesTwo ==
    (vl_pc = "returned" /\ vl_ctx = "READY" /\ vl_inflight = <<>>
       /\ vl_Defaults(vl_sinks) # {} /\ vl_Headsets(vl_sinks) # {})
      => Len(vl_issued) = 2

\* C16, amended: no run of volume-logitech.c issues more than one
\* set-volume request, a default output and a headset output being listed
\* or not: done is set before each call of set_volume and every later call
\* of sink_list_cb returns at once.
C16_AtMostOneSetVolume ==
    /\ Len(vl_issued) <= 1
    /\ Len(vl_issued) = 1 => done

\* C16, its case: both outputs were listed, the default one first, and the
\* run has ended with one request, the headset's.
C16_BothListedOneIssued ==
    /\ vl_pc = "returned" /\ retval = 0
    /\ Len(vl_sinks) = 2
    /\ vl_Defaults(vl_sinks) = {1} /\ vl_Headsets(vl_sinks) = {2}
    /\ Len(vl_issued) = 1 /\ vl_issued[1].which = "headset"

\* The list reply of the one-shot tool has been delivered: a request was
\* issued from it, or pa_mainloop_run returned on a live connection.
vl_Enumerated ==
    vl_issued # <<>> \/ (vl_pc = "returned" /\ vl_ctx = "READY")

\* C21: once the sinks were enumerated by volume-logitech.c, one set-volume
\* request has been issued if a headset output or a default output is
\* among them, for a headset output if there is one and for a default
\* output otherwise, whatever the indices of the sinks are, 0 included;
\* and the tool quits with 1 and no request only when neither is listed.
C21_ListedOutputIsSet ==
    vl_Enumerated =>
      LET headsets == vl_Headsets(vl_sinks)
          defaults == vl_Defaults(vl_sinks)
      IN /\ headsets # {} =>
              /\ Len(vl_issued) = 1
              /\ vl_issued[1].which = "headset"
              /\ \E k \in headsets : vl_issued[1].index = vl_sinks[k].index
         /\ (headsets = {} /\ defaults # {}) =>
              /\ Len(vl_issued) = 1
              /\ vl_issued[1].which = "default"
              /\ \E k \in defaults : vl_issued[1].index = vl_sinks[k].index
         /\ (headsets = {} /\ defaults = {}) =>
              /\ vl_issued = <<>>
              /\ vl_pc = "returned" /\ retval = 1

\* The fields of a text between the separators sep: field k lies between
\* the separators k - 1 and k.
Fields(text, sep) ==
    LET at == { j \in 1..Len(text) : text[j] = sep }
        nth(k) == CHOOSE p \in at : Cardinality({ j \in at : j <= p }) = k
        n == Cardinality(at) + 1
    IN [k \in 1..n |->
          SubSeq(text, IF k = 1 THEN 1 ELSE nth(k - 1) + 1,
                       IF k = n THEN Len(text) ELSE nth(k) - 1)]

\* The number a text of decimal digits stands for; -1 for any other text.
RECURSIVE Number(_)
Number(text) ==
    IF text = <<>> \/ \E k \in 1..Len(text) : \A d \in 1..10 : Digits[d] # text[k]
    THEN -1
    ELSE LET last == (CHOOSE d \in 1..10 : Digits[d] = text[Len(text)]) - 1
         IN IF Len(text) = 1 THEN last
            ELSE 10 * Number(SubSeq(text, 1, Len(text) - 1)) + last

\* The node ids a comma-separated list names.
NodesOf(text) ==
    IF text = <<>> THEN <<>>
    ELSE [k \in 1..Len(Fields(text, ",")) |-> Number(Fields(text, ",")[k])]

\* C17: the external program is run once for every notification
\* dispatched, and never before the node id was read; the command of the
\* last notification names the program, then "quorate" or "not_quorate" as
\* the flag is not 0 or is, then this node's id, which is not 0, then the
\* node ids of the view list in order with commas between.
C17_OneCommandPerNotification ==
    /\ systemCalls = dispatched
    /\ qn_pc # "killed"
    /\ dispatched > 0 =>
         /\ node_id = local_nodeid /\ node_id # 0
         /\ LET args == Fields(command, " ")
            IN /\ Len(args) = 4
               /\ args[1] = ext_program
               /\ args[2] = (IF notification.quorate # 0
                             THEN QuorateText ELSE NotQuorateText)
               /\ Number(args[3]) = local_nodeid
               /\ NodesOf(args[4]) = notification.view_list

\* The signals the throttler's loop has sent, without those of end().
SentByLoop == SelectSeq(th_sent, LAMBDA x : x.by = "main")

\* C20: the signals sent by the loop are SIGSTOP, SIGCONT, SIGSTOP, ...
\* in turn; and when the process has exited from end(), the last signal
\* sent to the target is SIGCONT.
C20_LastSignalIsCont ==
    /\ \A k \in 1..Len(SentByLoop) :
         SentByLoop[k].sig = (IF k % 2 = 1 THEN "SIGSTOP" ELSE "SIGCONT")
    /\ (th_pc = "exited" /\ handling # <<>>) =>
         (th_sent # <<>> /\ th_sent[Len(th_sent)].sig = "SIGCONT")

\* C20, its case: SIGTERM came while the target was stopped, in the second
\* pass of the loop, and the process has exited with status 0.
C20_TermWhileStopped ==
    /\ th_pc = "exited" /\ th_status = 0
    /\ handling = <<[signum |-> "SIGTERM", at |-> "exit"]>>
    /\ Len(th_sent) = 4
    /\ th_sent[3] = [sig |-> "SIGSTOP", by |-> "main"]
    /\ th_sent[4] = [sig |-> "SIGCONT", by |-> "end"]

=============================================================================
